---- MODULE Spec2Model ----
(***************************************************************************)
(* The text-mode console of the MaxOS kernel (src/kernel/kernel.c): the    *)
(* 80x25 window of 16-bit cells at 0xB8000, the cursor, and the console    *)
(* operations clear_screen, set_cursor_position, print_character,          *)
(* print_string, print_colored_string and scroll_screen; the boot path     *)
(* _start, kernel_main and the halt loop; delay_milliseconds.              *)
(***************************************************************************)
EXTENDS Integers, Sequences, FiniteSets, TLC

VARIABLES
    video_memory,     \* the 80x25 window: cell index 0..1999 -> 16-bit value
    cursor_position,  \* [x, y], both uint8_t
    outside,          \* stores made through video_memory[] past the window
    last,             \* the operation that produced this state, its arguments,
                      \* the cursor it started from, its scroll_screen calls
    nops,             \* number of operations performed so far
    system_status,    \* static uint8_t system_status
    pc                \* where control is: [at |-> "_start"] until a
                      \* specification steps through a function's body

vars == <<video_memory, cursor_position, outside, last, nops, system_status, pc>>

---------------------------------------------------------------------------
(* Program constants                                                       *)

SCREEN_WIDTH == 80
SCREEN_HEIGHT == 25
CHARACTERS_PER_SCREEN == SCREEN_WIDTH * SCREEN_HEIGHT

COLOR_BLACK == 0
COLOR_CYAN == 3
COLOR_LIGHT_GRAY == 7
COLOR_LIGHT_GREEN == 10
COLOR_YELLOW == 14
COLOR_WHITE == 15

SYSTEM_STATUS_READY == 1

DEFAULT_FOREGROUND == COLOR_WHITE
DEFAULT_BACKGROUND == COLOR_BLACK

---------------------------------------------------------------------------
(* C integer arithmetic                                                    *)

RECURSIVE Pow2(_)
Pow2(n) == IF n = 0 THEN 1 ELSE 2 * Pow2(n - 1)

\* a | b and a & b on non-negative bit patterns
RECURSIVE BitOr(_, _)
BitOr(a, b) ==
    IF a = 0 THEN b
    ELSE IF b = 0 THEN a
    ELSE (IF a % 2 = 1 \/ b % 2 = 1 THEN 1 ELSE 0) + 2 * BitOr(a \div 2, b \div 2)

RECURSIVE BitAnd(_, _)
BitAnd(a, b) ==
    IF a = 0 \/ b = 0 THEN 0
    ELSE (IF a % 2 = 1 /\ b % 2 = 1 THEN 1 ELSE 0) + 2 * BitAnd(a \div 2, b \div 2)

Shl(a, n) == a * Pow2(n)

\* conversions to the unsigned types of <stdint.h>
Uint8(v) == v % 256
Uint16(v) == v % 65536

\* the low 16 bits of the two's complement pattern of an int
IntLow16(v) == v % 65536

\* the value of a `char` holding byte b: plain char is signed on the x86 target
CharValue(b) == IF b >= 128 THEN b - 256 ELSE b

DEFAULT_ATTRIBUTE == BitOr(Shl(DEFAULT_BACKGROUND, 4), DEFAULT_FOREGROUND)

\* the value stored by  video_memory[offset] = (c | (attribute << 8))  for a
\* `char c`: c is promoted to int (sign-extended), OR-ed with the int
\* attribute << 8, and the int converted to uint16_t.  The conversion keeps
\* the low 16 bits and | acts on each bit alone, so the low 16 bits of the
\* two operands decide the cell.
CellOfChar(b, attribute) ==
    Uint16(BitOr(IntLow16(CharValue(b)), IntLow16(Shl(attribute, 8))))

\* the value stored by  (' ' | (DEFAULT_ATTRIBUTE << 8)) : ' ' is the int 32
BlankCell == Uint16(BitOr(32, Shl(DEFAULT_ATTRIBUTE, 8)))

\* the two bytes of a cell: low byte = glyph, high byte = attribute
Glyph(cell) == cell % 256
Attribute(cell) == cell \div 256

---------------------------------------------------------------------------
(* The console as a value: k = [vm, x, y, out, scrolls]                    *)

Window == 0 .. CHARACTERS_PER_SCREEN - 1

\* video_memory[offset] = v.  An offset inside the window changes that cell;
\* an offset past it is a store to the memory that follows the window.
Store(k, offset, v) ==
    IF offset \in Window
    THEN [k EXCEPT !.vm = [@ EXCEPT ![offset] = v]]
    ELSE [k EXCEPT !.out = [i \in (DOMAIN @) \cup {offset} |->
                                IF i = offset THEN v ELSE @[i]]]

\* for (i = lo; i < hi; ++i) video_memory[i] = video_memory[i + SCREEN_WIDTH];
\* The assignments are made one by one for i = lo, lo+1, ..., hi-1; the range
\* is halved only to keep the depth of the evaluation logarithmic.
RECURSIVE CopyUp(_, _, _)
CopyUp(vm, lo, hi) ==
    IF hi <= lo THEN vm
    ELSE IF hi = lo + 1 THEN [vm EXCEPT ![lo] = vm[lo + SCREEN_WIDTH]]
    ELSE LET mid == (lo + hi) \div 2
         IN  CHOOSE r \in { CopyUp(a, mid, hi) : a \in { CopyUp(vm, lo, mid) } } : TRUE

\* for (i = lo; i < hi; ++i) video_memory[base + i] = v;
RECURSIVE Fill(_, _, _, _, _)
Fill(vm, base, lo, hi, v) ==
    IF hi <= lo THEN vm
    ELSE IF hi = lo + 1 THEN [vm EXCEPT ![base + lo] = v]
    ELSE LET mid == (lo + hi) \div 2
         IN  CHOOSE r \in { Fill(a, base, mid, hi, v) : a \in { Fill(vm, base, lo, mid, v) } } : TRUE

\* scroll_screen with the bottom line left as the copy found it
scroll_screen_mut(k) ==
    [k EXCEPT !.vm = CopyUp(k.vm, 0, (SCREEN_HEIGHT - 1) * SCREEN_WIDTH),
              !.scrolls = @ + 1]

scroll_screen(k) ==
    LET moved == CopyUp(k.vm, 0, (SCREEN_HEIGHT - 1) * SCREEN_WIDTH)
        bottom_line_start == (SCREEN_HEIGHT - 1) * SCREEN_WIDTH
    IN  [k EXCEPT !.vm = Fill(moved, bottom_line_start, 0, SCREEN_WIDTH, BlankCell),
                  !.scrolls = @ + 1]

\* clear_screen with the loop ending one cell early
clear_screen_mut(k) ==
    [k EXCEPT !.vm = Fill(k.vm, 0, 0, CHARACTERS_PER_SCREEN - 1, BlankCell),
              !.x = 0,
              !.y = 0]

clear_screen(k) ==
    [k EXCEPT !.vm = Fill(k.vm, 0, 0, CHARACTERS_PER_SCREEN, BlankCell),
              !.x = 0,
              !.y = 0]

\* set_cursor_position clamping to the screen size instead of the last index
set_cursor_position_mut(k, x, y) ==
    LET cx == IF x > SCREEN_WIDTH THEN SCREEN_WIDTH ELSE x
        cy == IF y > SCREEN_HEIGHT THEN SCREEN_HEIGHT ELSE y
    IN  [k EXCEPT !.x = cx, !.y = cy]

set_cursor_position(k, x, y) ==
    LET cx == IF x >= SCREEN_WIDTH THEN SCREEN_WIDTH - 1 ELSE x
        cy == IF y >= SCREEN_HEIGHT THEN SCREEN_HEIGHT - 1 ELSE y
    IN  [k EXCEPT !.x = cx, !.y = cy]

\* NextLine with > for >= in the overflow test
NextLine_mut(k) ==
    LET k1 == [k EXCEPT !.y = Uint8(@ + 1)]
    IN  IF k1.y > SCREEN_HEIGHT
        THEN [scroll_screen(k1) EXCEPT !.y = SCREEN_HEIGHT - 1]
        ELSE k1

\* cursor_position.y++; if (cursor_position.y >= SCREEN_HEIGHT)
\*     { scroll_screen(); cursor_position.y = SCREEN_HEIGHT - 1; }
NextLine(k) ==
    LET k1 == [k EXCEPT !.y = Uint8(@ + 1)]
    IN  IF k1.y >= SCREEN_HEIGHT
        THEN [scroll_screen(k1) EXCEPT !.y = SCREEN_HEIGHT - 1]
        ELSE k1

\* Advance with > for >= in the wrap test
Advance_mut(k) ==
    LET k1 == [k EXCEPT !.x = Uint8(@ + 1)]
    IN  IF k1.x > SCREEN_WIDTH
        THEN NextLine([k1 EXCEPT !.x = 0])
        ELSE k1

\* cursor_position.x++; if (cursor_position.x >= SCREEN_WIDTH)
\*     { cursor_position.x = 0; <next line> }
Advance(k) ==
    LET k1 == [k EXCEPT !.x = Uint8(@ + 1)]
    IN  IF k1.x >= SCREEN_WIDTH
        THEN NextLine([k1 EXCEPT !.x = 0])
        ELSE k1

\* Tab rounding x + 7 instead of x + 8
Tab_mut(k) ==
    LET k1 == [k EXCEPT !.x = Uint8(BitAnd(@ + 7, 248))]
    IN  IF k1.x >= SCREEN_WIDTH
        THEN [k1 EXCEPT !.x = 0, !.y = Uint8(@ + 1)]
        ELSE k1

\* the '\t' branch of print_character: the row is advanced without the
\* overflow test that the other two branches make
Tab(k) ==
    LET k1 == [k EXCEPT !.x = Uint8(BitAnd(@ + 8, 248))]
    IN  IF k1.x >= SCREEN_WIDTH
        THEN [k1 EXCEPT !.x = 0, !.y = Uint8(@ + 1)]
        ELSE k1

\* print_character whose '\n' branch keeps the column
print_character_mut(k, c) ==
    IF CharValue(c) = 10 THEN NextLine(k)
    ELSE IF CharValue(c) = 13 THEN [k EXCEPT !.x = 0]
    ELSE IF CharValue(c) = 9 THEN Tab(k)
    ELSE LET offset == k.y * SCREEN_WIDTH + k.x
         IN  Advance(Store(k, offset, CellOfChar(c, DEFAULT_ATTRIBUTE)))

\* c is the byte held by the `char` argument
print_character(k, c) ==
    IF CharValue(c) = 10 THEN NextLine([k EXCEPT !.x = 0])
    ELSE IF CharValue(c) = 13 THEN [k EXCEPT !.x = 0]
    ELSE IF CharValue(c) = 9 THEN Tab(k)
    ELSE LET offset == k.y * SCREEN_WIDTH + k.x
         IN  Advance(Store(k, offset, CellOfChar(c, DEFAULT_ATTRIBUTE)))

\* A string argument is [null, bytes]: a null pointer, or the bytes it points
\* to, the terminating 0 included.
NullString == [null |-> TRUE, bytes |-> <<>>]
CString(s) == [null |-> FALSE, bytes |-> s \o <<0>>]

\* for (i = ...; str[i] != '\0'; ++i) print_character(str[i]);   (i from 1)
RECURSIVE PrintFrom(_, _, _)
PrintFrom(k, bytes, i) ==
    IF bytes[i] = 0 THEN k
    ELSE PrintFrom(print_character(k, bytes[i]), bytes, i + 1)

\* print_string printing "(null)" for a null pointer
print_string_mut(k, str) ==
    IF str.null
    THEN PrintFrom(k, <<40, 110, 117, 108, 108, 41, 0>>, 1)
    ELSE PrintFrom(k, str.bytes, 1)

print_string(k, str) ==
    IF str.null THEN k ELSE PrintFrom(k, str.bytes, 1)

\* the loop of print_colored_string without the '\n' branch
RECURSIVE PrintColoredFrom_mut(_, _, _, _)
PrintColoredFrom_mut(k, bytes, color, i) ==
    IF bytes[i] = 0 THEN k
    ELSE LET offset == k.y * SCREEN_WIDTH + k.x
         IN  PrintColoredFrom_mut(
                 Advance(Store(k, offset, CellOfChar(bytes[i], color))),
                 bytes, color, i + 1)

\* the body of the loop of print_colored_string for the byte b
\* (start_offset is written, never read)
PrintColoredByte(k, b, color) ==
    IF CharValue(b) = 10
    THEN print_character(k, 10)
    ELSE LET offset == k.y * SCREEN_WIDTH + k.x
         IN  Advance(Store(k, offset, CellOfChar(b, color)))

\* the loop of print_colored_string
RECURSIVE PrintColoredFrom(_, _, _, _)
PrintColoredFrom(k, bytes, color, i) ==
    IF bytes[i] = 0 THEN k
    ELSE PrintColoredFrom(PrintColoredByte(k, bytes[i], color), bytes, color, i + 1)

print_colored_string(k, str, color) ==
    IF str.null THEN k ELSE PrintColoredFrom(k, str.bytes, color, 1)

---------------------------------------------------------------------------
(* State machine                                                           *)

\* What the firmware left in the window: the kernel does not initialise it,
\* so an operation that reads it before the first clear_screen (scroll_screen)
\* may read anything.  Two images stand for it: one whose every cell differs
\* from its neighbours in the row and in the column, one of all-ones cells.
BootImages ==
    { [i \in Window |-> 1792 + (i % 256)],
      [i \in Window |-> 65535] }

Call(op) ==
    [op |-> op, c |-> -1, ax |-> -1, ay |-> -1, str |-> NullString, color |-> -1,
     x0 |-> cursor_position.x, y0 |-> cursor_position.y, scrolls |-> 0]

Init ==
    /\ video_memory \in BootImages
    /\ cursor_position = [x |-> 0, y |-> 0]
    /\ outside = [i \in {} |-> 0]
    /\ last = [op |-> "boot", c |-> -1, ax |-> -1, ay |-> -1, str |-> NullString,
               color |-> -1, x0 |-> 0, y0 |-> 0, scrolls |-> 0]
    /\ nops = 0
    /\ system_status = SYSTEM_STATUS_READY
    /\ pc = [at |-> "_start", ip |-> 0, i |-> 0]

\* the console before the operation
K == [vm |-> video_memory, x |-> cursor_position.x, y |-> cursor_position.y,
      out |-> outside, scrolls |-> 0]

\* the console after the operation becomes the state
Effect(k, call) ==
    /\ video_memory' = k.vm
    /\ cursor_position' = [x |-> k.x, y |-> k.y]
    /\ outside' = k.out
    /\ last' = [call EXCEPT !.scrolls = k.scrolls]

\* an operation called on its own, outside the boot path
Return(k, call) ==
    /\ Effect(k, call)
    /\ nops' = nops + 1
    /\ UNCHANGED <<system_status, pc>>

---------------------------------------------------------------------------
(* Spec: the public operations in any order                                *)

\* Bound on the number of operations, and the arguments tried: columns and
\* rows inside and past the screen, the three control bytes, an ASCII byte
\* and a byte above 0x7F, a null, a plain, a multi-line and a tabbed string.
MaxOps == 2
XArgs == {5, 200}
YArgs == {3, 200}
CharArgs == {9, 10, 13, 65, 200}
StringArgs ==
    { NullString, CString(<<66, 200>>), CString(<<10, 67>>), CString(<<9, 65>>) }
ColorArgs == { DEFAULT_ATTRIBUTE, 30 }

ClearScreen ==
    /\ nops < MaxOps
    /\ Return(clear_screen(K), Call("clear_screen"))

SetCursorPosition ==
    \E x \in XArgs, y \in YArgs :
        /\ nops < MaxOps
        /\ Return(set_cursor_position(K, x, y),
                  [Call("set_cursor_position") EXCEPT !.ax = x, !.ay = y])

PrintCharacter ==
    \E c \in CharArgs :
        /\ nops < MaxOps
        /\ Return(print_character(K, c), [Call("print_character") EXCEPT !.c = c])

PrintString ==
    \E s \in StringArgs :
        /\ nops < MaxOps
        /\ Return(print_string(K, s), [Call("print_string") EXCEPT !.str = s])

PrintColoredString ==
    \E s \in StringArgs, color \in ColorArgs :
        /\ nops < MaxOps
        /\ Return(print_colored_string(K, s, color),
                  [Call("print_colored_string") EXCEPT !.str = s, !.color = color])

ScrollScreen ==
    /\ nops < MaxOps
    /\ Return(scroll_screen(K), Call("scroll_screen"))

Next ==
    \/ ClearScreen
    \/ SetCursorPosition
    \/ PrintCharacter
    \/ PrintString
    \/ PrintColoredString
    \/ ScrollScreen

Spec == Init /\ [][Next]_vars

---------------------------------------------------------------------------
(* SpecTab: the cursor is placed anywhere, then tabs are printed           *)

\* Bound on the number of tabs printed after the placement: eleven take the
\* cursor from any column over a whole line of tab stops.
MaxTabs == 11
TabXArgs == 0 .. 255
TabYArgs == {0, 23, 24, 255}

TabPlace ==
    \E x \in TabXArgs, y \in TabYArgs :
        /\ nops = 0
        /\ Return(set_cursor_position(K, x, y),
                  [Call("set_cursor_position") EXCEPT !.ax = x, !.ay = y])

TabPrint ==
    /\ nops \in 1 .. MaxTabs
    /\ Return(print_character(K, 9), [Call("print_character") EXCEPT !.c = 9])

NextTab == TabPlace \/ TabPrint

SpecTab == Init /\ [][NextTab]_vars

---------------------------------------------------------------------------
(* SpecCursor: a byte is printed, then the cursor is set                   *)

\* Every value of a uint8_t parameter, paired with the values of the other
\* parameter at the ends of its range and on both sides of the two clamps.
CursorArgs == 0 .. 255
CursorEdgeArgs == {0, 24, 25, 79, 80, 255}
CursorArgPairs ==
    (CursorArgs \X CursorEdgeArgs) \cup (CursorEdgeArgs \X CursorArgs)

CursorPrint ==
    /\ nops = 0
    /\ Return(print_character(K, 65), [Call("print_character") EXCEPT !.c = 65])

CursorSet ==
    \E p \in CursorArgPairs :
        /\ nops = 1
        /\ Return(set_cursor_position(K, p[1], p[2]),
                  [Call("set_cursor_position") EXCEPT !.ax = p[1], !.ay = p[2]])

NextCursor == CursorPrint \/ CursorSet

SpecCursor == Init /\ [][NextCursor]_vars

---------------------------------------------------------------------------
(* SpecE4: clear_screen, then 80*25 bytes '.', then 'X'                    *)

E4Clear ==
    /\ nops = 0
    /\ Return(clear_screen(K), Call("clear_screen"))

E4Fill ==
    /\ nops \in 1 .. CHARACTERS_PER_SCREEN
    /\ Return(print_character(K, 46), [Call("print_character") EXCEPT !.c = 46])

E4Mark ==
    /\ nops = CHARACTERS_PER_SCREEN + 1
    /\ Return(print_character(K, 88), [Call("print_character") EXCEPT !.c = 88])

NextE4 == E4Clear \/ E4Fill \/ E4Mark

SpecE4 == Init /\ [][NextE4]_vars

---------------------------------------------------------------------------
(* SpecBoot: _start, kernel_main and the halt loop                         *)

\* A function body is the sequence of the calls and assignments it makes.
Instr(op) ==
    [op |-> op, ax |-> -1, ay |-> -1, str |-> NullString, color |-> -1,
     ms |-> -1, v |-> -1]
ClearScreenCall == Instr("clear_screen")
SetCursorCall(x, y) == [Instr("set_cursor_position") EXCEPT !.ax = x, !.ay = y]
PrintCall(str) == [Instr("print_string") EXCEPT !.str = str]
PrintColoredCall(str, color) ==
    [Instr("print_colored_string") EXCEPT !.str = str, !.color = color]
DelayCall(ms) == [Instr("delay_milliseconds") EXCEPT !.ms = ms]
AssignStatus(v) == [Instr("system_status") EXCEPT !.v = v]

\* video_initialize has an empty body
video_initialize == << >>

system_initialize ==
    video_initialize \o << ClearScreenCall, SetCursorCall(0, 0) >>

\* const char* logo[]
logo ==
    << CString(
           <<32, 32, 95, 95, 32, 32, 95, 95, 32, 32, 32, 32, 32, 32, 32,
             95, 32, 32, 95, 95, 95, 32, 32, 32, 95, 95, 95, 32>>),
       CString(
           <<32, 124, 32, 32, 92, 47, 32, 32, 124, 32, 32, 32, 32, 32, 47,
             32, 92, 47, 32, 95, 95, 92, 32, 47, 32, 95, 95, 92>>),
       CString(
           <<32, 124, 32, 92, 32, 32, 47, 32, 124, 32, 32, 32, 32, 47, 32,
             95, 32, 92, 95, 95, 32, 92, 32, 47, 32, 47, 32, 32, 32>>),
       CString(
           <<32, 124, 32, 124, 92, 47, 124, 32, 124, 32, 32, 32, 47, 32,
             95, 95, 95, 32, 92, 95, 95, 47, 47, 32, 47, 95, 95, 95, 32>>),
       CString(
           <<32, 124, 95, 124, 32, 32, 124, 95, 124, 32, 32, 47, 95, 47,
             32, 32, 32, 92, 95, 92, 47, 95, 95, 95, 95, 95, 124, 32>>) >>

\* the body of for (int i = 0; i < 5; ++i)
LogoLine(i) ==
    << SetCursorCall(25, 2 + i),
       PrintColoredCall(logo[i + 1], COLOR_CYAN),
       DelayCall(100) >>

print_system_banner ==
    << SetCursorCall(0, 2) >>
    \o LogoLine(0) \o LogoLine(1) \o LogoLine(2) \o LogoLine(3) \o LogoLine(4)
    \o << SetCursorCall(0, 8),
          PrintColoredCall(CString(
                               <<77, 97, 120, 79, 83, 32, 118, 50, 46, 48, 32, 45, 32, 69, 100,
                                 117, 99, 97, 116, 105, 111, 110, 97, 108, 32, 79, 112, 101,
                                 114, 97, 116, 105, 110, 103, 32, 83, 121, 115, 116, 101, 109>>), COLOR_YELLOW),
          SetCursorCall(0, 9),
          PrintColoredCall(CString(
                               <<66, 117, 105, 108, 116, 32, 102, 111, 114, 32, 108, 101, 97,
                                 114, 110, 105, 110, 103, 32, 97, 110, 100, 32, 99, 111, 109,
                                 112, 117, 116, 101, 114, 32, 115, 99, 105, 101, 110, 99, 101,
                                 32, 101, 100, 117, 99, 97, 116, 105, 111, 110>>), COLOR_LIGHT_GRAY) >>

\* print_system_information with the lines of the block at column 0
print_system_information_mut ==
    << SetCursorCall(0, 12),
       PrintColoredCall(CString(
                            <<83, 121, 115, 116, 101, 109, 32, 73, 110, 102, 111, 114, 109,
                              97, 116, 105, 111, 110, 58>>), COLOR_LIGHT_GREEN),
       SetCursorCall(0, 13),
       PrintCall(CString(
                     <<65, 114, 99, 104, 105, 116, 101, 99, 116, 117, 114, 101, 58,
                       32, 120, 56, 54, 32, 40, 51, 50, 45, 98, 105, 116, 32, 112,
                       114, 111, 116, 101, 99, 116, 101, 100, 32, 109, 111, 100, 101,
                       41>>)),
       SetCursorCall(0, 14),
       PrintCall(CString(
                     <<77, 101, 109, 111, 114, 121, 32, 77, 111, 100, 101, 108, 58,
                       32, 70, 108, 97, 116, 32, 109, 101, 109, 111, 114, 121, 32,
                       109, 111, 100, 101, 108, 32, 119, 105, 116, 104, 32, 115, 101,
                       103, 109, 101, 110, 116, 97, 116, 105, 111, 110>>)),
       SetCursorCall(0, 15),
       PrintCall(CString(
                     <<86, 105, 100, 101, 111, 32, 77, 111, 100, 101, 58, 32, 86, 71,
                       65, 32, 116, 101, 120, 116, 32, 109, 111, 100, 101, 32, 40,
                       56, 48, 120, 50, 53, 44, 32, 49, 54, 32, 99, 111, 108, 111,
                       114, 115, 41>>)),
       SetCursorCall(0, 16),
       PrintCall(CString(
                     <<66, 111, 111, 116, 32, 77, 101, 116, 104, 111, 100, 58, 32,
                       66, 73, 79, 83, 32, 98, 111, 111, 116, 108, 111, 97, 100, 101,
                       114, 32, 119, 105, 116, 104, 32, 107, 101, 114, 110, 101, 108,
                       32, 108, 111, 97, 100, 105, 110, 103>>)),
       SetCursorCall(0, 17),
       PrintCall(CString(
                     <<83, 121, 115, 116, 101, 109, 32, 83, 116, 97, 116, 117, 115,
                       58, 32, 73, 110, 105, 116, 105, 97, 108, 105, 122, 101, 100,
                       32, 97, 110, 100, 32, 114, 101, 97, 100, 121>>)) >>

print_system_information ==
    << SetCursorCall(0, 12),
       PrintColoredCall(CString(
                            <<83, 121, 115, 116, 101, 109, 32, 73, 110, 102, 111, 114, 109,
                              97, 116, 105, 111, 110, 58>>), COLOR_LIGHT_GREEN),
       SetCursorCall(2, 13),
       PrintCall(CString(
                     <<65, 114, 99, 104, 105, 116, 101, 99, 116, 117, 114, 101, 58,
                       32, 120, 56, 54, 32, 40, 51, 50, 45, 98, 105, 116, 32, 112,
                       114, 111, 116, 101, 99, 116, 101, 100, 32, 109, 111, 100, 101,
                       41>>)),
       SetCursorCall(2, 14),
       PrintCall(CString(
                     <<77, 101, 109, 111, 114, 121, 32, 77, 111, 100, 101, 108, 58,
                       32, 70, 108, 97, 116, 32, 109, 101, 109, 111, 114, 121, 32,
                       109, 111, 100, 101, 108, 32, 119, 105, 116, 104, 32, 115, 101,
                       103, 109, 101, 110, 116, 97, 116, 105, 111, 110>>)),
       SetCursorCall(2, 15),
       PrintCall(CString(
                     <<86, 105, 100, 101, 111, 32, 77, 111, 100, 101, 58, 32, 86, 71,
                       65, 32, 116, 101, 120, 116, 32, 109, 111, 100, 101, 32, 40,
                       56, 48, 120, 50, 53, 44, 32, 49, 54, 32, 99, 111, 108, 111,
                       114, 115, 41>>)),
       SetCursorCall(2, 16),
       PrintCall(CString(
                     <<66, 111, 111, 116, 32, 77, 101, 116, 104, 111, 100, 58, 32,
                       66, 73, 79, 83, 32, 98, 111, 111, 116, 108, 111, 97, 100, 101,
                       114, 32, 119, 105, 116, 104, 32, 107, 101, 114, 110, 101, 108,
                       32, 108, 111, 97, 100, 105, 110, 103>>)),
       SetCursorCall(2, 17),
       PrintCall(CString(
                     <<83, 121, 115, 116, 101, 109, 32, 83, 116, 97, 116, 117, 115,
                       58, 32, 73, 110, 105, 116, 105, 97, 108, 105, 122, 101, 100,
                       32, 97, 110, 100, 32, 114, 101, 97, 100, 121>>)) >>

\* print_status_message ending with a newline after the prompt
print_status_message_mut ==
    << SetCursorCall(0, 20),
       PrintColoredCall(CString(
                            <<83, 121, 115, 116, 101, 109, 32, 83, 116, 97, 116, 117, 115,
                              58, 32, 82, 101, 97, 100, 121>>), COLOR_LIGHT_GREEN),
       SetCursorCall(0, 21),
       PrintColoredCall(CString(
                            <<65, 118, 97, 105, 108, 97, 98, 108, 101, 32, 67, 111, 109,
                              109, 97, 110, 100, 115, 58, 32, 104, 101, 108, 112, 44, 32,
                              105, 110, 102, 111, 44, 32, 115, 116, 97, 116, 117, 115, 44,
                              32, 99, 108, 101, 97, 114>>), COLOR_YELLOW),
       SetCursorCall(0, 22),
       PrintColoredCall(CString(
                            <<84, 121, 112, 101, 32, 39, 104, 101, 108, 112, 39, 32, 102,
                              111, 114, 32, 99, 111, 109, 109, 97, 110, 100, 32, 105, 110,
                              102, 111, 114, 109, 97, 116, 105, 111, 110>>), COLOR_LIGHT_GRAY),
       SetCursorCall(0, 23),
       PrintColoredCall(CString(<<62, 32, 10>>), COLOR_WHITE) >>

print_status_message ==
    << SetCursorCall(0, 20),
       PrintColoredCall(CString(
                            <<83, 121, 115, 116, 101, 109, 32, 83, 116, 97, 116, 117, 115,
                              58, 32, 82, 101, 97, 100, 121>>), COLOR_LIGHT_GREEN),
       SetCursorCall(0, 21),
       PrintColoredCall(CString(
                            <<65, 118, 97, 105, 108, 97, 98, 108, 101, 32, 67, 111, 109,
                              109, 97, 110, 100, 115, 58, 32, 104, 101, 108, 112, 44, 32,
                              105, 110, 102, 111, 44, 32, 115, 116, 97, 116, 117, 115, 44,
                              32, 99, 108, 101, 97, 114>>), COLOR_YELLOW),
       SetCursorCall(0, 22),
       PrintColoredCall(CString(
                            <<84, 121, 112, 101, 32, 39, 104, 101, 108, 112, 39, 32, 102,
                              111, 114, 32, 99, 111, 109, 109, 97, 110, 100, 32, 105, 110,
                              102, 111, 114, 109, 97, 116, 105, 111, 110>>), COLOR_LIGHT_GRAY),
       SetCursorCall(0, 23),
       PrintColoredCall(CString(
                            <<62, 32>>), COLOR_WHITE) >>

kernel_main ==
    system_initialize
    \o print_system_banner
    \o print_system_information
    \o print_status_message
    \o << AssignStatus(SYSTEM_STATUS_READY) >>

\* pc = [at |-> "kernel_main", ip, i]: the next statement of kernel_main
\* (those of its callees in line) and, inside a print loop, the index i
InKernelMain == pc.at = "kernel_main" /\ pc.ip \in 1 .. Len(kernel_main)
Statement == kernel_main[pc.ip]
Console == <<video_memory, cursor_position, outside, last>>

\* _start calls kernel_main
Start ==
    /\ pc.at = "_start"
    /\ pc' = [at |-> "kernel_main", ip |-> 1, i |-> 0]
    /\ UNCHANGED <<Console, nops, system_status>>

BootClearScreen ==
    /\ InKernelMain
    /\ Statement.op = "clear_screen"
    /\ Effect(clear_screen(K), Call("clear_screen"))
    /\ nops' = nops + 1
    /\ pc' = [pc EXCEPT !.ip = @ + 1]
    /\ UNCHANGED system_status

BootSetCursor ==
    /\ InKernelMain
    /\ Statement.op = "set_cursor_position"
    /\ Effect(set_cursor_position(K, Statement.ax, Statement.ay),
              [Call("set_cursor_position") EXCEPT !.ax = Statement.ax,
                                                  !.ay = Statement.ay])
    /\ nops' = nops + 1
    /\ pc' = [pc EXCEPT !.ip = @ + 1]
    /\ UNCHANGED system_status

\* one pass through the loop of print_string or print_colored_string
BootPrintByte ==
    /\ InKernelMain
    /\ Statement.op \in {"print_string", "print_colored_string"}
    /\ ~Statement.str.null
    /\ LET b == Statement.str.bytes[pc.i + 1]
           call == [Call(Statement.op) EXCEPT !.c = b, !.str = Statement.str,
                                              !.color = Statement.color]
       IN  /\ b # 0
           /\ IF Statement.op = "print_string"
              THEN Effect(print_character(K, b), call)
              ELSE Effect(PrintColoredByte(K, b, Statement.color), call)
    /\ pc' = [pc EXCEPT !.i = @ + 1]
    /\ UNCHANGED <<nops, system_status>>

\* if (!str) return;  and the end of the loop at the terminating 0
BootPrintReturn ==
    /\ InKernelMain
    /\ Statement.op \in {"print_string", "print_colored_string"}
    /\ Statement.str.null \/ Statement.str.bytes[pc.i + 1] = 0
    /\ nops' = nops + 1
    /\ pc' = [pc EXCEPT !.ip = @ + 1, !.i = 0]
    /\ UNCHANGED <<Console, system_status>>

\* delay_milliseconds touches nothing but its own counter (SpecDelay steps
\* through it)
BootDelay ==
    /\ InKernelMain
    /\ Statement.op = "delay_milliseconds"
    /\ pc' = [pc EXCEPT !.ip = @ + 1]
    /\ UNCHANGED <<Console, nops, system_status>>

BootAssignStatus ==
    /\ InKernelMain
    /\ Statement.op = "system_status"
    /\ system_status' = Statement.v
    /\ pc' = [pc EXCEPT !.ip = @ + 1]
    /\ UNCHANGED <<Console, nops>>

\* kernel_main returns into _start, which enters while (1)
KernelMainReturn ==
    /\ pc.at = "kernel_main"
    /\ pc.ip = Len(kernel_main) + 1
    /\ pc' = [pc EXCEPT !.at = "hlt"]
    /\ UNCHANGED <<Console, nops, system_status>>

\* the halt loop with a store to the first cell in its body
Halt_mut ==
    /\ pc.at = "hlt"
    /\ video_memory' = [video_memory EXCEPT ![0] = BlankCell + 1]
    /\ UNCHANGED <<cursor_position, outside, last, nops, system_status, pc>>

\* while (1) { hlt }
Halt ==
    /\ pc.at = "hlt"
    /\ UNCHANGED vars

NextBoot ==
    \/ Start
    \/ BootClearScreen
    \/ BootSetCursor
    \/ BootPrintByte
    \/ BootPrintReturn
    \/ BootDelay
    \/ BootAssignStatus
    \/ KernelMainReturn
    \/ Halt

SpecBoot == Init /\ [][NextBoot]_vars

\* the processor keeps executing: no step of the boot path waits for anything
FairBoot == SpecBoot /\ WF_vars(NextBoot)

---------------------------------------------------------------------------
(* SpecScroll: scroll_screen one store at a time                           *)

\* pc = [at, ip, i, old]: the loop scroll_screen is in, its index i, and
\* the window as it was at entry (kept for the properties, not by the code)
ScrollEnter ==
    /\ pc.at = "_start"
    /\ pc' = [at |-> "scroll_copy", ip |-> 0, i |-> 0, old |-> video_memory]
    /\ last' = Call("scroll_screen")
    /\ UNCHANGED <<video_memory, cursor_position, outside, nops, system_status>>

\* the first loop running from the last index down to 0
ScrollCopy_mut ==
    /\ pc.at = "scroll_copy"
    /\ pc.i < (SCREEN_HEIGHT - 1) * SCREEN_WIDTH
    /\ LET j == (SCREEN_HEIGHT - 1) * SCREEN_WIDTH - 1 - pc.i
       IN  video_memory' = [video_memory EXCEPT ![j] = video_memory[j + SCREEN_WIDTH]]
    /\ pc' = [pc EXCEPT !.i = @ + 1]
    /\ UNCHANGED <<cursor_position, outside, last, nops, system_status>>

\* video_memory[i] = video_memory[i + SCREEN_WIDTH]; ++i
ScrollCopy ==
    /\ pc.at = "scroll_copy"
    /\ pc.i < (SCREEN_HEIGHT - 1) * SCREEN_WIDTH
    /\ video_memory' = [video_memory EXCEPT ![pc.i] = video_memory[pc.i + SCREEN_WIDTH]]
    /\ pc' = [pc EXCEPT !.i = @ + 1]
    /\ UNCHANGED <<cursor_position, outside, last, nops, system_status>>

\* exit of the first loop; bottom_line_start = (SCREEN_HEIGHT - 1) * SCREEN_WIDTH
ScrollCopyEnd ==
    /\ pc.at = "scroll_copy"
    /\ ~(pc.i < (SCREEN_HEIGHT - 1) * SCREEN_WIDTH)
    /\ pc' = [pc EXCEPT !.at = "scroll_fill", !.i = 0]
    /\ UNCHANGED <<Console, nops, system_status>>

\* video_memory[bottom_line_start + i] = ' ' | (DEFAULT_ATTRIBUTE << 8); ++i
ScrollFill ==
    /\ pc.at = "scroll_fill"
    /\ pc.i < SCREEN_WIDTH
    /\ video_memory' =
           [video_memory EXCEPT ![(SCREEN_HEIGHT - 1) * SCREEN_WIDTH + pc.i] = BlankCell]
    /\ pc' = [pc EXCEPT !.i = @ + 1]
    /\ UNCHANGED <<cursor_position, outside, last, nops, system_status>>

ScrollReturn ==
    /\ pc.at = "scroll_fill"
    /\ ~(pc.i < SCREEN_WIDTH)
    /\ pc' = [pc EXCEPT !.at = "scroll_return"]
    /\ nops' = nops + 1
    /\ UNCHANGED <<Console, system_status>>

NextScroll ==
    \/ ScrollEnter
    \/ ScrollCopy
    \/ ScrollCopyEnd
    \/ ScrollFill
    \/ ScrollReturn

SpecScroll == Init /\ [][NextScroll]_vars

---------------------------------------------------------------------------
(* SpecDelay: delay_milliseconds one iteration at a time                   *)

\* A uint32_t is kept as two 16-bit halves [hi, lo].
U32(n) == [hi |-> n \div 65536, lo |-> n % 65536]

\* ms * 10000 in uint32_t
DelayBound(ms) ==
    LET low == ms.lo * 10000
    IN  [hi |-> (ms.hi * 10000 + low \div 65536) % 65536, lo |-> low % 65536]

\* a < b in uint32_t
Less(a, b) == a.hi < b.hi \/ (a.hi = b.hi /\ a.lo < b.lo)

\* ++i in uint32_t
Increment(a) ==
    IF a.lo = 65535
    THEN [hi |-> (a.hi + 1) % 65536, lo |-> 0]
    ELSE [a EXCEPT !.lo = @ + 1]

\* Arguments tried: 0, 1, and two whose product with 10000 passes 2^32
\* (429497 * 10000 = 2^32 + 2704, 268435456 * 10000 = 625 * 2^32).
DelayArgs == { U32(0), U32(1), U32(429497), U32(268435456) }

\* pc = [at, ms, count]: the argument and the volatile counter (i in the code)
DelayEnter ==
    \E ms \in DelayArgs :
        /\ pc.at = "_start"
        /\ pc' = [at |-> "delay_milliseconds", ms |-> ms, count |-> U32(0)]
        /\ UNCHANGED <<Console, nops, system_status>>

\* i < ms * 10000; nop; ++i
DelayNop ==
    /\ pc.at = "delay_milliseconds"
    /\ Less(pc.count, DelayBound(pc.ms))
    /\ pc' = [pc EXCEPT !.count = Increment(@)]
    /\ UNCHANGED <<Console, nops, system_status>>

DelayReturn ==
    /\ pc.at = "delay_milliseconds"
    /\ ~Less(pc.count, DelayBound(pc.ms))
    /\ pc' = [pc EXCEPT !.at = "delay_return"]
    /\ UNCHANGED <<Console, nops, system_status>>

NextDelay == DelayEnter \/ DelayNop \/ DelayReturn

SpecDelay == Init /\ [][NextDelay]_vars

\* the loop waits for nothing
FairDelay == SpecDelay /\ WF_vars(NextDelay)

---------------------------------------------------------------------------
(* Vocabulary of the properties                                            *)

PublicOps ==
    {"clear_screen", "set_cursor_position", "print_character", "print_string",
     "print_colored_string", "scroll_screen"}

ControlBytes == {9, 10, 13}

\* the cell holding glyph g with attribute a
Cell(g, a) == g + 256 * a

\* the framebuffer index of column x, row y
At(x, y) == y * 80 + x

\* new is old moved up by one row, with a blank bottom row
ScrolledFrom(old, new) ==
    /\ \A i \in 0 .. 24 * 80 - 1 : new[i] = old[i + 80]
    /\ \A i \in 24 * 80 .. 25 * 80 - 1 : new[i] = Cell(32, 15)

\* the step is a call of print_character(c) with a byte that is not a control
PrintsPlain == last'.op = "print_character" /\ last'.c \notin ControlBytes

---------------------------------------------------------------------------
(* C1: after every public console operation, applied in any order from     *)
(* the boot state, the cursor satisfies 0 <= x < 80 and 0 <= y < 25.       *)
(* Violated: set_cursor_position(200, 200) then print_character('\t')      *)
(* leaves the cursor at (0, 25).                                           *)
C1_CursorInRange ==
    last.op \in PublicOps =>
        /\ cursor_position.x \in 0 .. 79
        /\ cursor_position.y \in 0 .. 24

(* C2: a tab whose next stop reaches or passes column 80 wraps like a      *)
(* normal advance: x = 0, y = y + 1, and from row 24 scroll_screen runs    *)
(* once and y stays 24.  Violated from row 24: no scroll, y = 25.          *)
C2_TabWrapsLikeAdvance ==
    (/\ last.op = "print_character"
     /\ last.c = 9
     /\ last.y0 \in 0 .. 24
     /\ last.x0 + 8 - (last.x0 % 8) >= 80)
    =>  /\ cursor_position.x = 0
        /\ cursor_position.y = (IF last.y0 = 24 THEN 24 ELSE last.y0 + 1)
        /\ last.scrolls = (IF last.y0 = 24 THEN 1 ELSE 0)

(* C3: after clear_screen(), from any prior state, every one of the 80*25  *)
(* cells is 0x0F20 (' ', attribute 0x0F) and the cursor is (0, 0).         *)
C3_ClearInvariant ==
    last.op = "clear_screen" =>
        /\ \A i \in 0 .. 80 * 25 - 1 : video_memory[i] = 3872
        /\ cursor_position = [x |-> 0, y |-> 0]

\* a clear_screen reached after the cursor was moved to the last cell
C3_Witness ==
    /\ last.op = "clear_screen"
    /\ last.x0 = 79
    /\ last.y0 = 24
    /\ video_memory[1999] = 3872

(* C4: print_character(c), c not a control byte, at an in-range cursor     *)
(* (x, y) with x < 79: the cell at (x, y) becomes (c, 0x0F), the cursor    *)
(* (x+1, y), and no other cell changes.  Violated for c = 0xC8: the cell   *)
(* becomes 0xFFC8 (see C5).                                                *)
C4_WriteLocality ==
    [][ (/\ PrintsPlain
         /\ cursor_position.x \in 0 .. 78
         /\ cursor_position.y \in 0 .. 24)
        =>  /\ video_memory'[At(cursor_position.x, cursor_position.y)]
                   = Cell(last'.c, 15)
            /\ cursor_position' = [x |-> cursor_position.x + 1,
                                   y |-> cursor_position.y]
            /\ \A i \in 0 .. 80 * 25 - 1 :
                   i # At(cursor_position.x, cursor_position.y)
                       => video_memory'[i] = video_memory[i]
            /\ outside' = outside ]_vars

(* C5: for every byte other than '\n', '\r', '\t' the cell stored by       *)
(* print_character has low byte = the byte and high byte = 0x0F, and the   *)
(* cells stored by print_colored_string(s, color) have high byte = color.  *)
(* Violated for bytes 0x80..0xFF: the promoted char is negative, and the   *)
(* OR leaves 0xFF in the high byte.                                        *)
C5_CellEncoding ==
    /\ (/\ last.op = "print_character"
        /\ last.c \notin ControlBytes
        /\ last.x0 \in 0 .. 79
        /\ last.y0 \in 0 .. 24)
       =>  \* a write at (79, 24) is followed by a scroll: the cell is a row up
           LET at == At(last.x0, last.y0) - 80 * last.scrolls
           IN  /\ Glyph(video_memory[at]) = last.c
               /\ Attribute(video_memory[at]) = 15
    /\ (/\ last.op = "print_colored_string"
        /\ ~last.str.null
        /\ last.y0 \in 0 .. 24
        /\ last.x0 + Len(last.str.bytes) - 1 < 80
        /\ \A j \in 1 .. Len(last.str.bytes) - 1 :
               last.str.bytes[j] \notin ControlBytes)
       =>  \A j \in 1 .. Len(last.str.bytes) - 1 :
               /\ Glyph(video_memory[At(last.x0, last.y0) + j - 1])
                      = last.str.bytes[j]
               /\ Attribute(video_memory[At(last.x0, last.y0) + j - 1])
                      = last.color

(* C6: from cursor (79, y) with y < 24, print_character of a non-control   *)
(* byte writes the cell at (79, y), leaves the cursor at (0, y+1) and      *)
(* does not scroll: no cell other than (79, y) changes.                    *)
C6_Linewrap ==
    [][ (/\ PrintsPlain
         /\ cursor_position.x = 79
         /\ cursor_position.y \in 0 .. 23)
        =>  /\ Glyph(video_memory'[At(79, cursor_position.y)]) = last'.c
            /\ cursor_position' = [x |-> 0, y |-> cursor_position.y + 1]
            /\ last'.scrolls = 0
            /\ \A i \in 0 .. 80 * 25 - 1 :
                   i # At(79, cursor_position.y)
                       => video_memory'[i] = video_memory[i]
            /\ outside' = outside ]_vars

\* byte 0xC8 was printed at (79, 3) and the cursor is at (0, 4)
C6_Witness ==
    /\ last.op = "print_character"
    /\ last.c = 200
    /\ last.x0 = 79
    /\ last.y0 = 3
    /\ cursor_position = [x |-> 0, y |-> 4]
    /\ Glyph(video_memory[At(79, 3)]) = 200

\* the screen and cursor that scenario E4 ends with
C7_E4Layout ==
    /\ \A i \in 0 .. 24 * 80 - 1 : video_memory[i] = Cell(46, 15)
    /\ video_memory[At(0, 24)] = Cell(88, 15)
    /\ \A x \in 1 .. 79 : video_memory[At(x, 24)] = Cell(32, 15)
    /\ cursor_position = [x |-> 1, y |-> 24]

(* C7: a non-control write at the last cell (79, 24) stores the byte       *)
(* there, then scrolls exactly once and leaves the cursor at (0, 24); so   *)
(* after clear_screen(), 80*25 bytes '.' and then 'X' give rows 0..23 all  *)
(* ('.', 0x0F), row 24 = ('X', 0x0F) then (' ', 0x0F) in columns 1..79,    *)
(* and cursor (1, 24).                                                     *)
C7_LastCellThenScroll ==
    [][ /\ (/\ PrintsPlain
            /\ cursor_position = [x |-> 79, y |-> 24])
           =>  /\ last'.scrolls = 1
               /\ cursor_position' = [x |-> 0, y |-> 24]
               \* the byte stored at (79, 24) is on row 23 after the scroll
               /\ Glyph(video_memory'[At(79, 23)]) = last'.c
               /\ ScrolledFrom(
                      [video_memory EXCEPT ![At(79, 24)] = video_memory'[At(79, 23)]],
                      video_memory')
        /\ (last'.op = "print_character" /\ nops' = 80 * 25 + 2)
           => C7_E4Layout' ]_vars

\* the 'X' of the scenario has been printed
C7_Witness ==
    /\ nops = 80 * 25 + 2
    /\ last.op = "print_character"
    /\ last.c = 88
    /\ last.x0 = 0
    /\ last.y0 = 24
    /\ video_memory[At(0, 24)] = Cell(88, 15)

(* C8: print_character('\n') at (x, y): for y < 24 the cursor becomes      *)
(* (0, y+1) and no cell changes; for y = 24 scroll_screen runs exactly     *)
(* once and the cursor becomes (0, 24).  print_character('\r') sets x to   *)
(* 0 and leaves y and every cell unchanged.                                *)
C8_NewlineAndReturn ==
    [][ /\ (/\ last'.op = "print_character"
            /\ last'.c = 10
            /\ cursor_position.y \in 0 .. 23)
           =>  /\ cursor_position' = [x |-> 0, y |-> cursor_position.y + 1]
               /\ video_memory' = video_memory
               /\ outside' = outside
               /\ last'.scrolls = 0
        /\ (/\ last'.op = "print_character"
            /\ last'.c = 10
            /\ cursor_position.y = 24)
           =>  /\ cursor_position' = [x |-> 0, y |-> 24]
               /\ last'.scrolls = 1
               /\ ScrolledFrom(video_memory, video_memory')
               /\ outside' = outside
        /\ (/\ last'.op = "print_character"
            /\ last'.c = 13)
           =>  /\ cursor_position' = [x |-> 0, y |-> cursor_position.y]
               /\ video_memory' = video_memory
               /\ outside' = outside
               /\ last'.scrolls = 0 ]_vars

\* a '\n' printed on the last row, away from column 0, has scrolled
C8_Witness ==
    /\ last.op = "print_character"
    /\ last.c = 10
    /\ last.x0 = 79
    /\ last.y0 = 24
    /\ last.scrolls = 1
    /\ cursor_position = [x |-> 0, y |-> 24]

(* C9: for every starting column x in 0..79, after print_character('\t')   *)
(* the new column is a multiple of 8 and the distance advanced is in 1..8, *)
(* a stop at column 80 counting as column 0 of the next row (x' = 0 with   *)
(* the row advanced); the tab itself writes no framebuffer cell.           *)
C9_TabLaw ==
    [][ (/\ last'.op = "print_character"
         /\ last'.c = 9
         /\ cursor_position.x \in 0 .. 79)
        =>  /\ cursor_position'.x % 8 = 0
            /\ \/ /\ cursor_position'.y = cursor_position.y
                  /\ cursor_position'.x - cursor_position.x \in 1 .. 8
               \/ /\ cursor_position'.y = cursor_position.y + 1
                  /\ cursor_position'.x = 0
                  /\ 80 - cursor_position.x \in 1 .. 8
            /\ video_memory' = video_memory
            /\ outside' = outside
            /\ last'.scrolls = 0 ]_vars

\* a tab from column 75 has wrapped to column 0 of the next row
C9_Witness ==
    /\ last.op = "print_character"
    /\ last.c = 9
    /\ last.x0 = 75
    /\ last.y0 = 23
    /\ cursor_position = [x |-> 0, y |-> 24]

(* C10: scroll_screen() from any framebuffer contents: row r becomes the   *)
(* previous row r+1 for r in 0..23, row 24 is all (' ', 0x0F), and the     *)
(* cursor is unchanged.                                                    *)
C10_ScrollCorrect ==
    [][ last'.op = "scroll_screen"
        =>  /\ \A r \in 0 .. 23 : \A x \in 0 .. 79 :
                   video_memory'[At(x, r)] = video_memory[At(x, r + 1)]
            /\ \A x \in 0 .. 79 : video_memory'[At(x, 24)] = Cell(32, 15)
            /\ cursor_position' = cursor_position
            /\ outside' = outside ]_vars

\* scroll_screen was called with the cursor on the last cell, and the row
\* that the firmware image held on row 1 is now on row 0
C10_Witness ==
    /\ last.op = "scroll_screen"
    /\ last.scrolls = 1
    /\ cursor_position = [x |-> 79, y |-> 24]
    /\ video_memory[At(5, 0)] = 1792 + 85

\* the bytes of a string argument before its terminating 0
Text(str) == SubSeq(str.bytes, 1, Len(str.bytes) - 1)

\* no byte of the sequence is one of the given bytes
Without(bytes, excluded) == \A j \in 1 .. Len(bytes) : bytes[j] \notin excluded

CursorOnScreen == cursor_position.x \in 0 .. 79 /\ cursor_position.y \in 0 .. 24

(* C11: print_colored_string(s, A), s without control bytes and no scroll  *)
(* triggered: exactly the len(s) cells from the initial cursor on, in      *)
(* row-major order, are written, each with glyph s[i] and attribute A; the *)
(* cursor ends just past the last one; every other cell is unchanged.      *)
(* Violated for s = "B\xC8": the cell of 0xC8 gets attribute 0xFF (C5).    *)
C11_ColoredWrite ==
    [][ (/\ last'.op = "print_colored_string"
         /\ ~last'.str.null
         /\ Without(Text(last'.str), ControlBytes)
         /\ last'.scrolls = 0
         /\ CursorOnScreen)
        =>  LET s == Text(last'.str)
                start == At(cursor_position.x, cursor_position.y)
            IN  /\ \A j \in 1 .. Len(s) :
                       video_memory'[start + j - 1] = Cell(s[j], last'.color)
                /\ cursor_position' = [x |-> (start + Len(s)) % 80,
                                       y |-> (start + Len(s)) \div 80]
                /\ \A i \in 0 .. 80 * 25 - 1 :
                       i \notin start .. start + Len(s) - 1
                           => video_memory'[i] = video_memory[i]
                /\ outside' = outside ]_vars

(* C13: print_string(NULL) and print_colored_string(NULL, color) are       *)
(* no-ops: the framebuffer and the cursor are as before the call.          *)
C13_NullIsNoOp ==
    [][ (/\ last'.op \in {"print_string", "print_colored_string"}
         /\ last'.str.null)
        =>  /\ video_memory' = video_memory
            /\ cursor_position' = cursor_position
            /\ outside' = outside
            /\ last'.scrolls = 0 ]_vars

\* print_string(NULL) returned after the cursor was moved to the last cell
C13_Witness ==
    /\ last.op = "print_string"
    /\ last.str.null
    /\ last.x0 = 79
    /\ last.y0 = 24
    /\ cursor_position = [x |-> 79, y |-> 24]

(* C17: for any sequence of public console operations from boot, every     *)
(* framebuffer index read or written lies in 0..1999.  Violated: after a   *)
(* tab has taken the cursor to row 25 (C1), the next byte is stored at     *)
(* index 25*80 + x >= 2000.                                                *)
C17_AccessInWindow ==
    \A i \in DOMAIN outside : i \in 0 .. 80 * 25 - 1

(* C19: for every string s without '\r' and '\t' and every in-range        *)
(* starting state, print_colored_string(s, 0x0F) leaves the framebuffer    *)
(* and the cursor exactly as print_string(s) does, wraps and scrolls       *)
(* included.                                                               *)
C19_ColoredDefaultIsPlain ==
    [][ (/\ last'.op = "print_colored_string"
         /\ last'.color = 15
         /\ Without(Text(last'.str), {9, 13})
         /\ CursorOnScreen)
        =>  LET plain == print_string(K, last'.str)
            IN  /\ video_memory' = plain.vm
                /\ cursor_position' = [x |-> plain.x, y |-> plain.y]
                /\ outside' = plain.out
                /\ last'.scrolls = plain.scrolls ]_vars

\* "\nC" was printed in the default colour from the last cell: one scroll
C19_Witness ==
    /\ last.op = "print_colored_string"
    /\ last.color = 15
    /\ last.str = CString(<<10, 67>>)
    /\ last.x0 = 79
    /\ last.y0 = 24
    /\ last.scrolls = 1
    /\ video_memory[At(0, 24)] = Cell(67, 15)

\* the smaller of two numbers
Min(a, b) == IF a <= b THEN a ELSE b

(* C12: set_cursor_position(x, y), for every x, y in 0..255, sets the      *)
(* cursor to (min(x, 79), min(y, 24)) and changes no framebuffer cell:     *)
(* out-of-range values are saturated, never rejected or wrapped.           *)
C12_SetCursorSaturates ==
    [][ last'.op = "set_cursor_position"
        =>  /\ cursor_position' = [x |-> Min(last'.ax, 79), y |-> Min(last'.ay, 24)]
            /\ video_memory' = video_memory
            /\ outside' = outside ]_vars

\* set_cursor_position(255, 80) was called with the cursor at (1, 0)
C12_Witness ==
    /\ last.op = "set_cursor_position"
    /\ last.ax = 255
    /\ last.ay = 80
    /\ last.x0 = 1
    /\ cursor_position = [x |-> 79, y |-> 24]

---------------------------------------------------------------------------
(* The boot path                                                           *)

\* The splash table of the interface: row, column, colour and text of every
\* line, the five logo lines first.
SplashTable ==
    << [row |-> 2, col |-> 25, color |-> COLOR_CYAN, text |->
           <<32, 32, 95, 95, 32, 32, 95, 95, 32, 32, 32, 32, 32, 32, 32,
             95, 32, 32, 95, 95, 95, 32, 32, 32, 95, 95, 95, 32>>],
       [row |-> 3, col |-> 25, color |-> COLOR_CYAN, text |->
           <<32, 124, 32, 32, 92, 47, 32, 32, 124, 32, 32, 32, 32, 32, 47,
             32, 92, 47, 32, 95, 95, 92, 32, 47, 32, 95, 95, 92>>],
       [row |-> 4, col |-> 25, color |-> COLOR_CYAN, text |->
           <<32, 124, 32, 92, 32, 32, 47, 32, 124, 32, 32, 32, 32, 47, 32,
             95, 32, 92, 95, 95, 32, 92, 32, 47, 32, 47, 32, 32, 32>>],
       [row |-> 5, col |-> 25, color |-> COLOR_CYAN, text |->
           <<32, 124, 32, 124, 92, 47, 124, 32, 124, 32, 32, 32, 47, 32,
             95, 95, 95, 32, 92, 95, 95, 47, 47, 32, 47, 95, 95, 95, 32>>],
       [row |-> 6, col |-> 25, color |-> COLOR_CYAN, text |->
           <<32, 124, 95, 124, 32, 32, 124, 95, 124, 32, 32, 47, 95, 47,
             32, 32, 32, 92, 95, 92, 47, 95, 95, 95, 95, 95, 124, 32>>],
       [row |-> 8, col |-> 0, color |-> COLOR_YELLOW, text |->
           <<77, 97, 120, 79, 83, 32, 118, 50, 46, 48, 32, 45, 32, 69, 100,
             117, 99, 97, 116, 105, 111, 110, 97, 108, 32, 79, 112, 101,
             114, 97, 116, 105, 110, 103, 32, 83, 121, 115, 116, 101, 109>>],
       [row |-> 9, col |-> 0, color |-> COLOR_LIGHT_GRAY, text |->
           <<66, 117, 105, 108, 116, 32, 102, 111, 114, 32, 108, 101, 97,
             114, 110, 105, 110, 103, 32, 97, 110, 100, 32, 99, 111, 109,
             112, 117, 116, 101, 114, 32, 115, 99, 105, 101, 110, 99, 101,
             32, 101, 100, 117, 99, 97, 116, 105, 111, 110>>],
       [row |-> 12, col |-> 0, color |-> COLOR_LIGHT_GREEN, text |->
           <<83, 121, 115, 116, 101, 109, 32, 73, 110, 102, 111, 114, 109,
             97, 116, 105, 111, 110, 58>>],
       [row |-> 13, col |-> 2, color |-> DEFAULT_ATTRIBUTE, text |->
           <<65, 114, 99, 104, 105, 116, 101, 99, 116, 117, 114, 101, 58,
             32, 120, 56, 54, 32, 40, 51, 50, 45, 98, 105, 116, 32, 112,
             114, 111, 116, 101, 99, 116, 101, 100, 32, 109, 111, 100, 101,
             41>>],
       [row |-> 14, col |-> 2, color |-> DEFAULT_ATTRIBUTE, text |->
           <<77, 101, 109, 111, 114, 121, 32, 77, 111, 100, 101, 108, 58,
             32, 70, 108, 97, 116, 32, 109, 101, 109, 111, 114, 121, 32,
             109, 111, 100, 101, 108, 32, 119, 105, 116, 104, 32, 115, 101,
             103, 109, 101, 110, 116, 97, 116, 105, 111, 110>>],
       [row |-> 15, col |-> 2, color |-> DEFAULT_ATTRIBUTE, text |->
           <<86, 105, 100, 101, 111, 32, 77, 111, 100, 101, 58, 32, 86, 71,
             65, 32, 116, 101, 120, 116, 32, 109, 111, 100, 101, 32, 40,
             56, 48, 120, 50, 53, 44, 32, 49, 54, 32, 99, 111, 108, 111,
             114, 115, 41>>],
       [row |-> 16, col |-> 2, color |-> DEFAULT_ATTRIBUTE, text |->
           <<66, 111, 111, 116, 32, 77, 101, 116, 104, 111, 100, 58, 32,
             66, 73, 79, 83, 32, 98, 111, 111, 116, 108, 111, 97, 100, 101,
             114, 32, 119, 105, 116, 104, 32, 107, 101, 114, 110, 101, 108,
             32, 108, 111, 97, 100, 105, 110, 103>>],
       [row |-> 17, col |-> 2, color |-> DEFAULT_ATTRIBUTE, text |->
           <<83, 121, 115, 116, 101, 109, 32, 83, 116, 97, 116, 117, 115,
             58, 32, 73, 110, 105, 116, 105, 97, 108, 105, 122, 101, 100,
             32, 97, 110, 100, 32, 114, 101, 97, 100, 121>>],
       [row |-> 20, col |-> 0, color |-> COLOR_LIGHT_GREEN, text |->
           <<83, 121, 115, 116, 101, 109, 32, 83, 116, 97, 116, 117, 115,
             58, 32, 82, 101, 97, 100, 121>>],
       [row |-> 21, col |-> 0, color |-> COLOR_YELLOW, text |->
           <<65, 118, 97, 105, 108, 97, 98, 108, 101, 32, 67, 111, 109,
             109, 97, 110, 100, 115, 58, 32, 104, 101, 108, 112, 44, 32,
             105, 110, 102, 111, 44, 32, 115, 116, 97, 116, 117, 115, 44,
             32, 99, 108, 101, 97, 114>>],
       [row |-> 22, col |-> 0, color |-> COLOR_LIGHT_GRAY, text |->
           <<84, 121, 112, 101, 32, 39, 104, 101, 108, 112, 39, 32, 102,
             111, 114, 32, 99, 111, 109, 109, 97, 110, 100, 32, 105, 110,
             102, 111, 114, 109, 97, 116, 105, 111, 110>>],
       [row |-> 23, col |-> 0, color |-> COLOR_WHITE, text |->
           <<62, 32>>] >>

Covers(e, offset) ==
    offset \in At(e.col, e.row) .. At(e.col, e.row) + Len(e.text) - 1

\* the window the table describes: its texts, blank cells everywhere else
SplashScreen ==
    [offset \in Window |->
        IF \E j \in DOMAIN SplashTable : Covers(SplashTable[j], offset)
        THEN LET e == SplashTable[CHOOSE j \in DOMAIN SplashTable :
                                      Covers(SplashTable[j], offset)]
             IN  Cell(e.text[offset - At(e.col, e.row) + 1], e.color)
        ELSE BlankCell]

\* C14: the boot sequence (clear, banner, system information, status
\* message) leaves in the window exactly the layout of the splash table,
\* every other cell being (' ', default attribute), and no byte it writes
\* wraps to another row, scrolls the screen or lands outside the window.
C14_SplashLayout ==
    [][ /\ pc'.i = pc.i + 1
           =>  /\ cursor_position' = [cursor_position EXCEPT !.x = @ + 1]
               /\ cursor_position'.x < SCREEN_WIDTH
               /\ last'.scrolls = 0
               /\ outside' = outside
        /\ pc'.at = "hlt"
           =>  /\ video_memory' = SplashScreen
               /\ DOMAIN outside' = {} ]_vars

\* the boot sequence has run to its end: logo, information block and the
\* untouched first row are on the screen
C14_Witness ==
    /\ pc.at = "hlt"
    /\ video_memory[At(27, 2)] = Cell(95, COLOR_CYAN)
    /\ video_memory[At(2, 13)] = Cell(65, DEFAULT_ATTRIBUTE)
    /\ video_memory[At(0, 0)] = BlankCell

\* C15: when kernel_main has returned the cursor is at (2, 23), just past
\* the "> " prompt.
C15_PromptPosition ==
    pc.at = "hlt" => cursor_position = [x |-> 2, y |-> 23]

C15_Witness ==
    /\ pc.at = "hlt"
    /\ video_memory[At(0, 23)] = Cell(62, COLOR_WHITE)
    /\ video_memory[At(1, 23)] = Cell(32, COLOR_WHITE)
    /\ cursor_position.x = 2

\* C16: the first console operation of _start is the full clear, the halt
\* loop is entered only when every statement of kernel_main has run, it is
\* entered eventually and never left, and in it neither the window nor the
\* cursor changes.
C16_BootLifecycle ==
    /\ [][ /\ last.op = "boot" /\ last' # last
              =>  /\ last'.op = "clear_screen"
                  /\ \A offset \in Window : video_memory'[offset] = BlankCell
           /\ pc'.at = "hlt" /\ pc.at # "hlt"
              =>  /\ pc.ip = Len(kernel_main) + 1
                  /\ video_memory = SplashScreen
           /\ pc.at = "hlt"
              =>  /\ pc'.at = "hlt"
                  /\ video_memory' = video_memory
                  /\ cursor_position' = cursor_position
                  /\ outside' = outside ]_vars
    /\ <>[](pc.at = "hlt")

\* the halt loop is reached with the splash drawn and the status set
C16_Witness ==
    /\ pc.at = "hlt"
    /\ pc.ip = Len(kernel_main) + 1
    /\ system_status = SYSTEM_STATUS_READY
    /\ last.op = "print_colored_string"

---------------------------------------------------------------------------
(* scroll_screen and delay_milliseconds step by step                       *)

CopyCells == (SCREEN_HEIGHT - 1) * SCREEN_WIDTH

\* C18: the copy of scroll_screen runs over the indices 0, 1, ..., 24*80 - 1
\* in this order, reading cell i + 80 and writing cell i; the cell it reads
\* still holds what it held when scroll_screen was entered; the bottom row
\* is filled only when the copy is complete.
C18_ScrollCopyOrder ==
    [][ /\ pc'.at = "scroll_copy" /\ pc.at # "scroll_copy" => pc'.i = 0
        /\ pc.at = "scroll_copy" /\ pc'.at = "scroll_copy"
           =>  /\ pc'.i = pc.i + 1
               /\ video_memory[pc.i + 80] = pc.old[pc.i + 80]
               /\ video_memory' = [video_memory EXCEPT ![pc.i] = pc.old[pc.i + 80]]
        /\ pc.at = "scroll_copy" /\ pc'.at # "scroll_copy" => pc.i = CopyCells
        /\ (\E o \in CopyCells .. CHARACTERS_PER_SCREEN - 1 :
                video_memory'[o] # video_memory[o])
           =>  /\ pc.at = "scroll_fill"
               /\ \A o \in 0 .. CopyCells - 1 : video_memory[o] = pc.old[o + 80]
        /\ pc'.at = "scroll_return" /\ pc.at # "scroll_return"
           =>  video_memory' = scroll_screen([K EXCEPT !.vm = pc.old]).vm ]_vars

\* the copy is under way on the image whose rows differ: the first cells
\* hold the cells of the row below, the cell to be read is untouched
C18_Witness ==
    /\ pc.at = "scroll_copy"
    /\ pc.i = 100
    /\ video_memory[99] = pc.old[179]
    /\ video_memory[99] # pc.old[99]
    /\ video_memory[180] = pc.old[180]

\* delay_milliseconds returns
C20_DelayReturns == <>(pc.at = "delay_return")

\* C20: delay_milliseconds(ms) returns, having made ms * 10000 (in 32-bit
\* unsigned arithmetic) iterations, and a larger ms never makes fewer
\* iterations than a smaller one.
C20_DelayIterations ==
    /\ C20_DelayReturns
    /\ [](pc.at = "delay_return"
          =>  /\ pc.count = DelayBound(pc.ms)
              /\ \A ms \in DelayArgs :
                     Less(ms, pc.ms) => ~Less(pc.count, DelayBound(ms)))

====
